---------------------------- MODULE Spec2Model ----------------------------
(***************************************************************************)
(* terminal-search (src/src/main.rs): the URL resolver Engine::url, the    *)
(* engine catalog Configuration with its YAML store (from / save), and the *)
(* command line driver main.                                               *)
(*                                                                         *)
(* Text is a sequence of one-character strings.  Option<T> is a sequence   *)
(* of length at most one: None is << >>, Some(x) is << x >>.               *)
(* The file system is taken to be reliable: creating, reading and writing  *)
(* the configuration file do not fail.                                     *)
(***************************************************************************)
EXTENDS Naturals, Sequences, FiniteSets

VARIABLES
    fs,       \* the configuration file: [exists, data]
    cfg,      \* Spec: the Configuration under call, as Option (None once moved)
    ret,      \* Spec: the last call and what it returned
    pc,       \* SpecMain/SpecConc: where each invocation of main is
    config,   \* SpecMain/SpecConc: each invocation's `config`, as Option
    cmd,      \* SpecMain/SpecConc: each invocation's parsed command line
    saved,    \* SpecMain/SpecConc: the invocations that wrote the file, in order
    seen,     \* SpecMain/SpecConc: what each one loaded, after how many writes, from which file
    overlap,  \* SpecMain/SpecConc: a file operation fell inside another's from or save
    engine,   \* SpecUrl: the engine Engine::url is called on
    term,     \* SpecUrl: the search term
    result    \* SpecUrl: what Engine::url returned

vars == <<fs, cfg, ret, pc, config, cmd, saved, seen, overlap, engine, term, result>>

None == << >>
Some(x) == << x >>

(***************************************************************************)
(* Bounds.                                                                 *)
(***************************************************************************)
\* the longest search term of SpecUrl
MaxTermLen == 2
\* the most engines of a Configuration of Spec and SpecStore
MaxEngines == 3
\* the most engines the add command of SpecMain and SpecConc grows the file to
MaxStored == 2

\* the sequences over S of length at most n
RECURSIVE SeqsUpTo(_, _)
SeqsUpTo(S, n) ==
    IF n = 0 THEN { << >> }
    ELSE LET shorter == SeqsUpTo(S, n - 1)
         IN  shorter \cup { Append(t, c) : t \in shorter, c \in S }

(***************************************************************************)
(* The regular expressions Engine::url compiles (regex crate).  The        *)
(* modelled syntax: a literal character, `.` (any character), `$` (end of  *)
(* text), a backslash-escaped metacharacter, each but `$` optionally       *)
(* followed by `+`.  A backslash with nothing after it, a `+` with nothing *)
(* to repeat and a parenthesis without its partner do not compile; groups  *)
(* are outside the modelled syntax, so a match has capture group 0 only.   *)
(***************************************************************************)
MetaChars == { "\\", ".", "+", "(", ")", "$" }
WordChars == { "a", "q", "0", "1" }

Atom(kind, ch) == [kind |-> kind, ch |-> ch, plus |-> FALSE]
NoRegex == [ok |-> FALSE, atoms |-> << >>]

RECURSIVE ParseRegex(_, _, _)
ParseRegex(r, i, acc) ==
    IF i > Len(r) THEN [ok |-> TRUE, atoms |-> acc]
    ELSE LET c == r[i] IN
         CASE c = "\\" ->
                IF i < Len(r) /\ r[i + 1] \in MetaChars
                THEN ParseRegex(r, i + 2, Append(acc, Atom("lit", r[i + 1])))
                ELSE NoRegex
           [] c = "+" ->
                IF acc # << >> /\ acc[Len(acc)].kind # "end"
                THEN ParseRegex(r, i + 1,
                        [acc EXCEPT ![Len(acc)] = [@ EXCEPT !.plus = TRUE]])
                ELSE NoRegex
           [] c \in { "(", ")" } -> NoRegex
           [] c = "." -> ParseRegex(r, i + 1, Append(acc, Atom("any", ".")))
           [] c = "$" -> ParseRegex(r, i + 1, Append(acc, Atom("end", "$")))
           [] OTHER -> ParseRegex(r, i + 1, Append(acc, Atom("lit", c)))

\* Regex::new
RegexNew(r) == ParseRegex(r, 1, << >>)

\* regex::escape with the backslash left out: metacharacters keep their meaning
EscapeNothing(s) == s

\* regex::escape: a backslash before every metacharacter
RECURSIVE Escape(_)
Escape(s) ==
    IF s = << >> THEN << >>
    ELSE (IF Head(s) \in MetaChars THEN << "\\", Head(s) >> ELSE << Head(s) >>)
         \o Escape(Tail(s))

AtomMatches(a, c) == a.kind = "any" \/ (a.kind = "lit" /\ a.ch = c)

\* how many characters from pos on the atom can take (one, unless repeated)
RECURSIVE RunLen(_, _, _)
RunLen(a, s, pos) ==
    IF pos > Len(s) \/ ~AtomMatches(a, s[pos]) THEN 0
    ELSE IF a.plus THEN 1 + RunLen(a, s, pos + 1) ELSE 1

\* The position after the match of atoms[k..] that starts at pos, 0 if there
\* is none; a repetition takes the longest run that lets the rest match.
RECURSIVE MatchEnd(_, _, _, _), TryRun(_, _, _, _, _)
MatchEnd(atoms, k, s, pos) ==
    IF k > Len(atoms) THEN pos
    ELSE IF atoms[k].kind = "end"
         THEN IF pos = Len(s) + 1 THEN MatchEnd(atoms, k + 1, s, pos) ELSE 0
         ELSE TryRun(atoms, k, s, pos, RunLen(atoms[k], s, pos))

TryRun(atoms, k, s, pos, n) ==
    IF n = 0 THEN 0
    ELSE LET e == MatchEnd(atoms, k + 1, s, pos + n)
         IN  IF e # 0 THEN e ELSE TryRun(atoms, k, s, pos, n - 1)

\* the length of the capture name after a `$`: the longest run of word characters
RECURSIVE NameLen(_, _)
NameLen(rep, i) ==
    IF i > Len(rep) \/ rep[i] \notin WordChars THEN 0 ELSE 1 + NameLen(rep, i + 1)

\* the name is a number and that number is 0
IsGroupZero(name) == \A j \in 1..Len(name) : name[j] = "0"

\* Captures::expand: `$$` is a dollar, `$name` the capture of that name (the
\* empty text when there is no such group), any other `$` itself.
RECURSIVE Expand(_, _, _)
Expand(rep, i, whole) ==
    IF i > Len(rep) THEN << >>
    ELSE IF rep[i] # "$" THEN << rep[i] >> \o Expand(rep, i + 1, whole)
    ELSE IF i < Len(rep) /\ rep[i + 1] = "$" THEN << "$" >> \o Expand(rep, i + 2, whole)
    ELSE LET n == NameLen(rep, i + 1) IN
         IF n = 0 THEN << "$" >> \o Expand(rep, i + 1, whole)
         ELSE (IF IsGroupZero(SubSeq(rep, i + 1, i + n)) THEN whole ELSE << >>)
              \o Expand(rep, i + n + 1, whole)

\* Regex::replace_all from pos on; last is the end of the previous match (an
\* empty match right after a match is skipped).
RECURSIVE ReplaceFrom(_, _, _, _, _)
ReplaceFrom(atoms, s, rep, pos, last) ==
    IF pos > Len(s) + 1 THEN << >>
    ELSE LET e == MatchEnd(atoms, 1, s, pos)
             here == IF pos <= Len(s) THEN << s[pos] >> ELSE << >>
         IN  IF e = 0 \/ (e = pos /\ pos = last)
             THEN here \o ReplaceFrom(atoms, s, rep, pos + 1, last)
             ELSE IF e = pos
             THEN Expand(rep, 1, << >>) \o here \o ReplaceFrom(atoms, s, rep, pos + 1, e)
             ELSE Expand(rep, 1, SubSeq(s, pos, e - 1)) \o ReplaceFrom(atoms, s, rep, e, e)

ReplaceAll(atoms, s, rep) == ReplaceFrom(atoms, s, rep, 1, 0)

Ok(v) == [ok |-> TRUE, val |-> v]
Err(kind) == [ok |-> FALSE, val |-> kind]

\* Engine::url
url(e, t) ==
    LET regex == RegexNew(e.regex) IN
    IF ~regex.ok THEN Err("Other")
    ELSE LET treated_string == ReplaceAll(regex.atoms, t, e.replacement)
             pattern == RegexNew(Escape(e.pattern))
         IN  IF ~pattern.ok THEN Err("Other")
             ELSE Ok(ReplaceAll(pattern.atoms, e.url_pattern, treated_string))

(***************************************************************************)
(* Engine and Configuration.                                               *)
(***************************************************************************)
Uuids == { 1, 2 }
Names == { << "g" >>, << "~" >>, << "0" >> }

\* Engine::new, the Uuid::new_v4() it draws given as u
EngineNew(u, name, url_pattern, pattern, regex, replacement) ==
    [uuid |-> u, name |-> name, url_pattern |-> url_pattern, pattern |-> pattern,
     regex |-> regex, replacement |-> replacement]

\* the engines of the catalog model: any identifier, any name, one URL rule
OneRule(u, n) == EngineNew(u, n, << "a", "q" >>, << "q" >>, << " " >>, << "+" >>)
AllEngines == { OneRule(u, n) : u \in Uuids, n \in Names }

Path == "home/.search_config.yaml"
DefaultPath == ""

\* Configuration::new
new(file_path, default_engine, engines) ==
    [file_path |-> file_path, default_engine |-> default_engine, engines |-> engines]

\* Configuration::update_path
update_path(c, p) == [c EXCEPT !.file_path = p]

\* Configuration::push
push(c, e) ==
    [c EXCEPT !.engines = IF @ = None THEN Some(<< e >>) ELSE Some(Append(@[1], e))]

RemoveNameFromEmptyFails(c, name) ==
    IF c.engines # None /\ c.engines[1] # << >>
    THEN [res |-> Ok("unit"),
          cfg |-> [c EXCEPT !.engines = Some(SelectSeq(@[1], LAMBDA el : el.name # name))]]
    ELSE [res |-> Err("InvalidData"), cfg |-> c]

RemoveNameClearsDefault(c, name) ==
    IF c.engines # None
    THEN LET left == SelectSeq(c.engines[1], LAMBDA el : el.name # name) IN
         [res |-> Ok("unit"),
          cfg |-> [c EXCEPT !.engines = Some(left),
                            !.default_engine =
                                IF @ # None /\ \A i \in 1..Len(left) : left[i].name # @[1]
                                THEN None ELSE @]]
    ELSE [res |-> Err("InvalidData"), cfg |-> c]

\* Configuration::remove_where_name
remove_where_name(c, name) ==
    IF c.engines # None
    THEN [res |-> Ok("unit"),
          cfg |-> [c EXCEPT !.engines = Some(SelectSeq(@[1], LAMBDA el : el.name # name))]]
    ELSE [res |-> Err("InvalidData"), cfg |-> c]

RemoveUuidFirstOnly(c, u) ==
    IF c.engines # None
    THEN LET v == c.engines[1]
             hits == { i \in 1..Len(v) : v[i].uuid = u }
             first == CHOOSE i \in hits : \A j \in hits : i <= j
         IN  [res |-> Ok("unit"),
              cfg |-> IF hits = { } THEN c
                      ELSE [c EXCEPT !.engines =
                                Some(SubSeq(v, 1, first - 1) \o SubSeq(v, first + 1, Len(v)))]]
    ELSE [res |-> Err("InvalidData"), cfg |-> c]

\* Configuration::remove_where_uuid
remove_where_uuid(c, u) ==
    IF c.engines # None
    THEN [res |-> Ok("unit"),
          cfg |-> [c EXCEPT !.engines = Some(SelectSeq(@[1], LAMBDA el : el.uuid # u))]]
    ELSE [res |-> Err("InvalidData"), cfg |-> c]

\* Vec::remove at a position inside the vector (positions count from 0)
VecRemove(v, index) == SubSeq(v, 1, index) \o SubSeq(v, index + 2, Len(v))

\* Configuration::remove_at: takes the configuration by value; Vec::remove
\* panics when index >= len.  content is the local vector when the call returns.
remove_at(c, index) ==
    IF c.engines # None
    THEN IF index < Len(c.engines[1])
         THEN [res |-> Ok("unit"), content |-> Some(VecRemove(c.engines[1], index))]
         ELSE [res |-> [ok |-> FALSE, val |-> "panic"], content |-> None]
    ELSE [res |-> Err("InvalidData"), content |-> None]

\* Configuration::names
names(c) ==
    IF c.engines # None THEN [i \in 1..Len(c.engines[1]) |-> c.engines[1][i].name]
    ELSE << >>

Contains(v, x) == \E i \in 1..Len(v) : v[i] = x

\* Iterator::find on the name: the first element of v named name
FindName(v, name) ==
    IF \E i \in 1..Len(v) : v[i].name = name
    THEN Some(v[CHOOSE i \in 1..Len(v) :
                  v[i].name = name /\ \A j \in 1..(i - 1) : v[j].name # name])
    ELSE None

DefaultFindsLast(c) ==
    IF c.default_engine = None \/ c.engines = None THEN None
    ELSE LET v == c.engines[1]
             hit(i) == v[i].name = c.default_engine[1]
         IN  IF \E i \in 1..Len(v) : hit(i)
             THEN Some(v[CHOOSE i \in 1..Len(v) : hit(i) /\ \A j \in (i + 1)..Len(v) : ~hit(j)])
             ELSE None

\* Configuration::default
default(c) ==
    IF c.default_engine = None THEN None
    ELSE IF c.engines = None THEN None
    ELSE FindName(c.engines[1], c.default_engine[1])

SetDefaultUnchecked(c, name) ==
    [res |-> Ok("unit"), cfg |-> [c EXCEPT !.default_engine = Some(name)]]

\* Configuration::set_default
set_default(c, name) ==
    IF Contains(names(c), name)
    THEN [res |-> Ok("unit"), cfg |-> [c EXCEPT !.default_engine = Some(name)]]
    ELSE [res |-> Err("InvalidData"), cfg |-> c]

\* Configuration::where_name
where_name(c, name) ==
    IF c.engines # None
    THEN LET found == FindName(c.engines[1], name)
         IN  IF found # None THEN Ok(found[1]) ELSE Err("InvalidInput")
    ELSE Err("Other")

(***************************************************************************)
(* The YAML document serde_yaml writes for a Configuration and reads back. *)
(* A document is a sequence of lines [tag, style, text]: the key (for      *)
(* the first field of a list item, with its dash), how the value is        *)
(* written (a plain or a quoted scalar, the flow list [], or the start of  *)
(* a block list) and the scalar's characters.  file_path is skipped in     *)
(* both directions.                                                        *)
(***************************************************************************)
NullText == << "n", "u", "l", "l" >>
\* the plain scalars YAML reads as null
NullTexts == { NullText, << "~" >>, << >> }
\* a plain scalar of digits is a number
IsNumber(s) == s # << >> /\ \A i \in 1..Len(s) : s[i] \in { "0", "1" }

Line(tag, style, text) == [tag |-> tag, style |-> style, text |-> text]

StrScalarNeverQuoted(tag, s) == Line(tag, "plain", s)

\* serialize_str: quoted when the plain scalar would not read back as a string
StrScalar(tag, s) ==
    Line(tag, IF s \in NullTexts \/ IsNumber(s) THEN "quoted" ELSE "plain", s)

\* serialize_none / serialize_some
OptScalar(tag, o) == IF o = None THEN Line(tag, "plain", NullText) ELSE StrScalar(tag, o[1])

Digits == << "1", "2", "3", "4", "5", "6", "7", "8", "9" >>
\* Uuid's hyphenated text
UuidText(u) == << Digits[u], "-", Digits[u] >>

EngineLines(e) ==
    << Line("- uuid", "plain", UuidText(e.uuid)),
       StrScalar("name", e.name),
       StrScalar("url_pattern", e.url_pattern),
       StrScalar("pattern", e.pattern),
       StrScalar("regex", e.regex),
       StrScalar("replacement", e.replacement) >>

RECURSIVE ItemLines(_)
ItemLines(v) == IF v = << >> THEN << >> ELSE EngineLines(Head(v)) \o ItemLines(Tail(v))

EnginesLines(o) ==
    IF o = None THEN << Line("engines", "plain", NullText) >>
    ELSE IF o[1] = << >> THEN << Line("engines", "flow", << "[", "]" >>) >>
    ELSE << Line("engines", "block", << >>) >> \o ItemLines(o[1])

\* serde_yaml::to_writer(&file, &self)
Serialize(c) == << OptScalar("default_engine", c.default_engine) >> \o EnginesLines(c.engines)

\* deserialize_option: a plain null is None, any other scalar Some of its text
ReadOpt(l) == IF l.style = "plain" /\ l.text \in NullTexts THEN None ELSE Some(l.text)

IsScalar(l) == l.style \in { "plain", "quoted" }
EngineTags == << "- uuid", "name", "url_pattern", "pattern", "regex", "replacement" >>
IsUuidText(t) == \E u \in Uuids : UuidText(u) = t

\* the six lines from k on are one engine
IsEngineAt(d, k) ==
    /\ \A j \in 1..6 : d[k + j - 1].tag = EngineTags[j] /\ IsScalar(d[k + j - 1])
    /\ IsUuidText(d[k].text)

ReadEngineAt(d, k) ==
    [uuid |-> CHOOSE u \in Uuids : UuidText(u) = d[k].text,
     name |-> d[k + 1].text, url_pattern |-> d[k + 2].text, pattern |-> d[k + 3].text,
     regex |-> d[k + 4].text, replacement |-> d[k + 5].text]

\* The documents that deserialize: the two keys, then the engines as null,
\* [] or a block of whole engines.  (Documents with the keys in another
\* order or left out are not written by save and not modelled.)
IsConfigDoc(d) ==
    /\ Len(d) >= 2
    /\ d[1].tag = "default_engine" /\ IsScalar(d[1])
    /\ d[2].tag = "engines"
    /\ \/ d[2].style = "plain" /\ d[2].text \in NullTexts /\ Len(d) = 2
       \/ d[2].style = "flow" /\ Len(d) = 2
       \/ /\ d[2].style = "block" /\ Len(d) > 2 /\ (Len(d) - 2) % 6 = 0
          /\ \A n \in 0..((Len(d) - 2) \div 6 - 1) : IsEngineAt(d, 3 + 6 * n)

\* serde_yaml::from_reader::<File, Configuration>
Deserialize(d) ==
    IF ~IsConfigDoc(d) THEN Err("InvalidData")
    ELSE Ok(new(DefaultPath, ReadOpt(d[1]),
                IF d[2].style = "plain" THEN None
                ELSE IF d[2].style = "flow" THEN Some(<< >>)
                ELSE Some([n \in 1..((Len(d) - 2) \div 6) |-> ReadEngineAt(d, 6 * n - 3)])))

NoFile == [exists |-> FALSE, data |-> << >>]
FileOf(d) == [exists |-> TRUE, data |-> d]

FromRewritesEmptyFile(f, file_path) ==
    IF ~f.exists \/ Len(f.data) = 0
    THEN LET c == new(file_path, None, None)
         IN  [fs |-> FileOf(Serialize(c)), res |-> Ok(c)]
    ELSE LET r == Deserialize(f.data)
         IN  [fs |-> f, res |-> IF r.ok THEN Ok(update_path(r.val, file_path)) ELSE r]

\* Configuration::from when file_path.exists() was false: File::create makes
\* the file, or empties the one that has appeared since
FromAbsent(file_path) == [fs |-> FileOf(<< >>), res |-> Ok(new(file_path, None, None))]

\* Configuration::from when file_path.exists() was true
FromPresent(f, file_path) ==
    IF Len(f.data) = 0
    THEN [fs |-> f, res |-> Ok(new(file_path, None, None))]
    ELSE LET r == Deserialize(f.data)
         IN  [fs |-> f, res |-> IF r.ok THEN Ok(update_path(r.val, file_path)) ELSE r]

\* Configuration::from on the file f: the file afterwards and the result
from(f, file_path) == IF ~f.exists THEN FromAbsent(file_path) ELSE FromPresent(f, file_path)

OpenKeepsContent(f) == FileOf(f.data)

\* File::create: the file exists afterwards and is zero-length
Create(f) == FileOf(<< >>)

\* to_writer and flush on a freshly opened file: d written from the start of
\* the file, over what is there
WriteAll(f, d) == FileOf(d \o SubSeq(f.data, Len(d) + 1, Len(f.data)))

\* Configuration::save: File::create, to_writer, flush
save(c) == [fs |-> WriteAll(Create(NoFile), Serialize(c)), res |-> Ok("unit")]

(***************************************************************************)
(* Spec: one Configuration, built by Configuration::new, under any         *)
(* sequence of calls of its in-memory methods.  SpecStore: one             *)
(* Configuration, built by Configuration::new, under any sequence of save  *)
(* and from on the one path.  ret records the last call: its name, its     *)
(* argument, what it returned and the configuration it was called on.      *)
(***************************************************************************)
OptNames == { None } \cup { Some(n) : n \in Names }
EngineVecs == SeqsUpTo(AllEngines, MaxEngines)
\* what Configuration::new can build for the path
Configs ==
    { new(Path, d, e) : d \in OptNames, e \in { None } \cup { Some(v) : v \in EngineVecs } }

\* what the calls so far have done to the default: the name the last
\* successful set_default was given, and whether that name has since been
\* left without an engine by a removal ("dangling") and then been given one
\* again by a push ("resolved")
NoTrack == [name |-> None, at |-> "none"]
Call(op, arg, res, pre) ==
    [op |-> op, arg |-> arg, res |-> res, pre |-> pre, track |-> NoTrack]

NamesNone(c, name) ==
    c.engines = None \/ \A i \in 1..Len(c.engines[1]) : c.engines[1][i].name # name

\* the track after call has returned and left the configuration now
NextTrack(call, now) ==
    LET t == ret.track IN
    IF call.op = "set_default" /\ call.res.ok THEN [name |-> Some(call.arg), at |-> "set"]
    ELSE IF t.name = None THEN t
    ELSE IF call.op \in { "remove_where_name", "remove_where_uuid" }
              /\ NamesNone(now, t.name[1])
         THEN [t EXCEPT !.at = "dangling"]
    ELSE IF call.op = "push" /\ t.at = "dangling" /\ call.arg.name = t.name[1]
         THEN [t EXCEPT !.at = "resolved"]
    ELSE t

Tracked(call, now) == [call EXCEPT !.track = NextTrack(call, now)]

Procs == { 1, 2 }
NotLoaded == [writes |-> 0, config |-> None, file |-> NoFile]
IdleMain ==
    /\ pc = [p \in Procs |-> "start"]
    /\ config = [p \in Procs |-> None]
    /\ cmd = [p \in Procs |-> None]
    /\ saved = << >>
    /\ seen = [p \in Procs |-> NotLoaded]
    /\ overlap = FALSE
IdleUrl == engine = None /\ term = << >> /\ result = None
mainVars == <<pc, config, cmd, saved, seen, overlap>>
urlVars == <<engine, term, result>>

Init ==
    /\ fs = NoFile
    /\ cfg \in { None } \cup { Some(c) : c \in Configs }
    /\ ret = Call("new", None, None, None)
    /\ IdleMain /\ IdleUrl

ApiFrom ==
    LET r == from(fs, Path) IN
    /\ fs' = r.fs
    /\ cfg' = IF r.res.ok THEN Some(r.res.val) ELSE None
    /\ ret' = Call("from", [file |-> fs, after |-> ret.op, of |-> ret.pre], r.res, cfg)
    /\ UNCHANGED <<mainVars, urlVars>>

ApiSave ==
    /\ cfg # None
    /\ LET r == save(cfg[1]) IN
        /\ fs' = r.fs
        /\ cfg' = None
        /\ ret' = Call("save", None, r.res, cfg)
    /\ UNCHANGED <<mainVars, urlVars>>

ApiPush ==
    /\ cfg # None
    /\ Len(names(cfg[1])) < MaxEngines
    /\ \E e \in AllEngines :
        /\ cfg' = Some(push(cfg[1], e))
        /\ ret' = Tracked(Call("push", e, Ok("unit"), cfg), push(cfg[1], e))
    /\ UNCHANGED <<fs, mainVars, urlVars>>

ApiRemoveWhereName ==
    /\ cfg # None
    /\ \E name \in Names :
        LET r == remove_where_name(cfg[1], name) IN
        /\ cfg' = Some(r.cfg)
        /\ ret' = Tracked(Call("remove_where_name", name, r.res, cfg), r.cfg)
    /\ UNCHANGED <<fs, mainVars, urlVars>>

ApiRemoveWhereUuid ==
    /\ cfg # None
    /\ \E u \in Uuids :
        LET r == remove_where_uuid(cfg[1], u) IN
        /\ cfg' = Some(r.cfg)
        /\ ret' = Tracked(Call("remove_where_uuid", u, r.res, cfg), r.cfg)
    /\ UNCHANGED <<fs, mainVars, urlVars>>

\* remove_at takes self: the configuration is gone after the call
ApiRemoveAt ==
    /\ cfg # None
    /\ \E index \in 0..MaxEngines :
        /\ cfg' = None
        /\ ret' = Call("remove_at", index, remove_at(cfg[1], index), cfg)
    /\ UNCHANGED <<fs, mainVars, urlVars>>

ApiSetDefault ==
    /\ cfg # None
    /\ \E name \in Names :
        LET r == set_default(cfg[1], name) IN
        /\ cfg' = Some(r.cfg)
        /\ ret' = Tracked(Call("set_default", name, r.res, cfg), r.cfg)
    /\ UNCHANGED <<fs, mainVars, urlVars>>

ApiDefault ==
    /\ cfg # None
    /\ ret' = Tracked(Call("default", None, default(cfg[1]), cfg), cfg[1])
    /\ UNCHANGED <<fs, cfg, mainVars, urlVars>>

Next ==
    \/ ApiPush
    \/ ApiRemoveWhereName
    \/ ApiRemoveWhereUuid
    \/ ApiRemoveAt
    \/ ApiSetDefault
    \/ ApiDefault

Spec == Init /\ [][Next]_vars

NextStore ==
    \/ ApiFrom
    \/ ApiSave

SpecStore == Init /\ [][NextStore]_vars

(***************************************************************************)
(* Claims about the store.                                                 *)
(***************************************************************************)
EmptyConfig == new(Path, None, None)

\* C1: a Configuration that was saved and then loaded from the same path is
\* the Configuration that was saved: the same engines in the same order, the
\* same default_engine, bound to the path.
C1_RoundTrip ==
    (ret.op = "from" /\ ret.arg.after = "save") =>
        /\ ret.res.ok
        /\ cfg = ret.arg.of
        /\ cfg[1].file_path = Path

\* a catalog with two engines of one name and a default that names no engine
\* has been saved and loaded
C1_Witness ==
    /\ ret.op = "from" /\ ret.arg.after = "save" /\ cfg # None
    /\ cfg[1].engines # None /\ Len(cfg[1].engines[1]) = 2
    /\ cfg[1].engines[1][1].name = cfg[1].engines[1][2].name
    /\ cfg[1].default_engine # None /\ default(cfg[1]) = None

\* C2: from on a path with no file creates a zero-length file and returns
\* the empty Configuration; from on a zero-length file returns the empty
\* Configuration and the file is still zero-length.
C2_LoadOfNothing ==
    (ret.op = "from" /\ (~ret.arg.file.exists \/ ret.arg.file.data = << >>)) =>
        /\ ret.res.ok
        /\ cfg = Some(EmptyConfig)
        /\ fs = FileOf(<< >>)

\* the second load: from has run on the zero-length file an earlier from created
C2_Witness ==
    /\ ret.op = "from" /\ ret.arg.after = "from"
    /\ ret.arg.file = FileOf(<< >>)
    /\ cfg = Some(EmptyConfig) /\ fs = FileOf(<< >>)

(***************************************************************************)
(* Claims about the catalog.                                               *)
(***************************************************************************)
IsRemoveWhere == ret.op \in { "remove_where_name", "remove_where_uuid" }
\* the engines of c as a vector, empty when there are none
EnginesOf(c) == IF c.engines = None THEN << >> ELSE c.engines[1]
\* the last remove_where call's key is the key of no engine
KeyMatchesNone ==
    \A i \in 1..Len(EnginesOf(ret.pre[1])) :
        IF ret.op = "remove_where_name"
        THEN EnginesOf(ret.pre[1])[i].name # ret.arg
        ELSE EnginesOf(ret.pre[1])[i].uuid # ret.arg

\* C3, as claimed: remove_where_name and remove_where_uuid fail exactly when
\* the engines are absent or empty; on a key that matches no engine they
\* succeed and the number of engines is unchanged.
C3_FailsOnAbsentOrEmpty ==
    IsRemoveWhere =>
        /\ ~ret.res.ok <=> EnginesOf(ret.pre[1]) = << >>
        /\ (ret.res.ok /\ KeyMatchesNone) =>
                Len(EnginesOf(cfg[1])) = Len(EnginesOf(ret.pre[1]))

\* C3, amended: remove_where_name and remove_where_uuid fail exactly when the
\* engines are absent (an engine list that is present and empty is not a
\* failure), a failed call changes nothing, and on a key that matches no
\* engine they succeed and the number of engines is unchanged.
C3_FailsOnAbsentOnly ==
    IsRemoveWhere =>
        /\ ~ret.res.ok <=> ret.pre[1].engines = None
        /\ ~ret.res.ok => (ret.res.val = "InvalidData" /\ cfg = ret.pre)
        /\ (ret.res.ok /\ KeyMatchesNone) =>
                Len(EnginesOf(cfg[1])) = Len(EnginesOf(ret.pre[1]))

\* remove_where_name has succeeded on a present, empty engine list
C3_Witness ==
    /\ ret.op = "remove_where_name" /\ ret.res.ok
    /\ ret.pre[1].engines = Some(<< >>)

\* C4, as claimed: remove_at returns a failure value, and does not panic, when
\* index >= len(engines) or there are no engines; for index < len(engines) it
\* succeeds and the catalog holds the engines without the one at index.
C4_RemoveAtNeverPanics ==
    ret.op = "remove_at" =>
        IF ret.arg < Len(EnginesOf(ret.pre[1]))
        THEN /\ ret.res.res.ok
             /\ cfg # None
             /\ cfg[1].engines = Some(VecRemove(EnginesOf(ret.pre[1]), ret.arg))
        ELSE ~ret.res.res.ok /\ ret.res.res.val # "panic"

\* C5: set_default(name) succeeds exactly when name is in names(); a failed
\* call leaves default_engine and engines as they were.
C5_SetDefault ==
    ret.op = "set_default" =>
        /\ ret.res.ok <=> (\E i \in 1..Len(EnginesOf(ret.pre[1])) :
                               EnginesOf(ret.pre[1])[i].name = ret.arg)
        /\ ~ret.res.ok => cfg = ret.pre

\* set_default has failed on a catalog whose default names no engine
C5_Witness ==
    /\ ret.op = "set_default" /\ ~ret.res.ok
    /\ ret.pre[1].default_engine # None /\ ret.pre[1].default_engine[1] # ret.arg
    /\ ret.pre[1].engines # None /\ ret.pre[1].engines[1] # << >>
    /\ default(ret.pre[1]) = None

\* the positions of the engines that default_engine names
DefaultHits(c) ==
    IF c.default_engine = None THEN { }
    ELSE { i \in 1..Len(EnginesOf(c)) : EnginesOf(c)[i].name = c.default_engine[1] }

\* C10: default() returns an engine exactly when default_engine is set and
\* names an engine, and then the first such engine in catalog order; otherwise
\* it returns None.  After a successful set_default(n), default() is an engine
\* named n.
C10_Default ==
    /\ ret.op = "default" =>
          LET c == ret.pre[1] IN
          IF DefaultHits(c) # { }
          THEN ret.res =
                 Some(EnginesOf(c)[CHOOSE i \in DefaultHits(c) : \A j \in DefaultHits(c) : i <= j])
          ELSE ret.res = None
    /\ (ret.op = "set_default" /\ ret.res.ok) =>
          /\ default(cfg[1]) # None
          /\ default(cfg[1])[1].name = ret.arg

\* default() has returned the first of two engines of the default's name
C10_Witness ==
    /\ ret.op = "default" /\ ret.res # None
    /\ Cardinality(DefaultHits(ret.pre[1])) = 2
    /\ EnginesOf(ret.pre[1])[1] # EnginesOf(ret.pre[1])[2]
    /\ ret.res[1] = EnginesOf(ret.pre[1])[1]

\* C11: push, remove_where_name and remove_where_uuid leave default_engine as
\* it was.  Once set_default(n) has succeeded and a removal has left no
\* engine named n, default_engine is still n and default() is None; a push
\* of an engine named n then makes default() that engine, with no
\* set_default in between.
C11_DefaultNotCascaded ==
    /\ ret.op \in { "push", "remove_where_name", "remove_where_uuid" } =>
          cfg[1].default_engine = ret.pre[1].default_engine
    /\ ret.track.at = "dangling" =>
          /\ cfg[1].default_engine = ret.track.name
          /\ default(cfg[1]) = None
          /\ ret.op = "default" => ret.res = None
    /\ (ret.track.at = "resolved" /\ ret.op = "push" /\ DefaultHits(ret.pre[1]) = { }) =>
          /\ cfg[1].default_engine = ret.track.name
          /\ default(cfg[1]) = Some(ret.arg)

\* set_default(n) succeeded, a removal then emptied the catalog of engines
\* named n, and the push that has just returned gave n an engine again
C11_Witness ==
    /\ ret.op = "push" /\ ret.track.at = "resolved"
    /\ ret.pre[1].default_engine = ret.track.name
    /\ DefaultHits(ret.pre[1]) = { } /\ default(ret.pre[1]) = None
    /\ ret.arg.name = ret.track.name[1]
    /\ default(cfg[1]) = Some(ret.arg)

\* the positions of v that a removal on key (a name, or an identifier when
\* byUuid) keeps
Kept(v, key, byUuid) ==
    { i \in 1..Len(v) : IF byUuid THEN v[i].uuid # key ELSE v[i].name # key }

\* w is v without the positions outside kept, the rest in their order
IsRestriction(w, v, kept) ==
    /\ Len(w) = Cardinality(kept)
    /\ \A i \in kept : w[Cardinality({ j \in kept : j <= i })] = v[i]

\* C12: on a catalog with engines present, remove_where_name(name) leaves
\* exactly the engines whose name is not name, in their previous order, and
\* changes nothing else of the catalog; remove_where_uuid(id) does the same
\* on the identifier, whatever the names.
C12_RemovesExactlyMatching ==
    (IsRemoveWhere /\ ret.pre[1].engines # None) =>
        /\ ret.res.ok
        /\ cfg[1].engines # None
        /\ IsRestriction(cfg[1].engines[1], ret.pre[1].engines[1],
                         Kept(ret.pre[1].engines[1], ret.arg, ret.op = "remove_where_uuid"))
        /\ cfg[1].file_path = ret.pre[1].file_path
        /\ cfg[1].default_engine = ret.pre[1].default_engine

\* remove_where_uuid has removed the middle one of three engines, which
\* shares its name with the first, and kept the first and the last in order
C12_Witness ==
    /\ ret.op = "remove_where_uuid" /\ ret.res.ok
    /\ Len(EnginesOf(ret.pre[1])) = 3
    /\ EnginesOf(ret.pre[1])[1].uuid # ret.arg
    /\ EnginesOf(ret.pre[1])[2].uuid = ret.arg
    /\ EnginesOf(ret.pre[1])[3].uuid # ret.arg
    /\ EnginesOf(ret.pre[1])[1].name = EnginesOf(ret.pre[1])[2].name
    /\ EnginesOf(ret.pre[1])[1] # EnginesOf(ret.pre[1])[3]
    /\ cfg[1].engines = Some(<< EnginesOf(ret.pre[1])[1], EnginesOf(ret.pre[1])[3] >>)

(***************************************************************************)
(* SpecUrl: Engine::url on an engine and a term drawn from bounded sets.   *)
(***************************************************************************)
TermChars == { "a", " ", "$", "0" }
Terms == SeqsUpTo(TermChars, MaxTermLen)
RegexInputs ==
    { << " " >>, << " ", "+" >>, << "." >>, << "$" >>, << >>, << "\\", "$" >>, << "(" >>,
      << "+" >>, << "\\" >> }
ReplacementInputs == { << "+" >>, << >>, << "$", "0", "$", "0" >>, << "$", "$" >>, << "$", "1" >> }
PatternInputs == { << "q" >>, << "." >>, << "q", "." >>, << "$" >>, << >> }
UrlPatternInputs ==
    { << "a", "q" >>, << "q", "a", "q" >>, << "a", ".", "a" >>, << "q", ".", "q" >>, << "a", "a" >>,
      << "a", "$" >> }
EngineInputs ==
    { EngineNew(1, << "g" >>, u, p, r, x) :
        u \in UrlPatternInputs, p \in PatternInputs, r \in RegexInputs, x \in ReplacementInputs }

InitUrl ==
    /\ engine \in { Some(e) : e \in EngineInputs }
    /\ term \in Terms
    /\ result = None
    /\ fs = NoFile /\ cfg = None /\ ret = Call("new", None, None, None)
    /\ IdleMain

Resolve ==
    /\ result = None
    /\ result' = Some(url(engine[1], term))
    /\ UNCHANGED <<fs, cfg, ret, mainVars, engine, term>>

NextUrl == Resolve

SpecUrl == InitUrl /\ [][NextUrl]_vars

\* pattern is the text of s from pos on
OccursAt(s, p, pos) == pos + Len(p) - 1 <= Len(s) /\ SubSeq(s, pos, pos + Len(p) - 1) = p
Occurs(s, p) == \E pos \in 1..(Len(s) + 1) : OccursAt(s, p, pos)

\* s with every occurrence of the text p, from the left and not overlapping
\* (for the empty p: every place between two characters and at both ends),
\* replaced by the text t
RECURSIVE Substitute(_, _, _, _)
Substitute(s, p, t, pos) ==
    IF pos > Len(s) THEN (IF p = << >> THEN t ELSE << >>)
    ELSE IF p = << >> THEN t \o << s[pos] >> \o Substitute(s, p, t, pos + 1)
    ELSE IF OccursAt(s, p, pos) THEN t \o Substitute(s, p, t, pos + Len(p))
    ELSE << s[pos] >> \o Substitute(s, p, t, pos + 1)

\* the treated string: the term with the matches of regex replaced
Treated(e, t) == ReplaceAll(RegexNew(e.regex).atoms, t, e.replacement)

\* C6, as claimed: when the regex compiles, url is url_pattern with every
\* occurrence of the text pattern replaced by the treated string, character
\* for character.
C6_TreatedInsertedVerbatim ==
    (result # None /\ RegexNew(engine[1].regex).ok) =>
        /\ result[1].ok
        /\ result[1].val =
              Substitute(engine[1].url_pattern, engine[1].pattern, Treated(engine[1], term), 1)

\* C7: url fails exactly when the regex does not compile; when it compiles
\* and pattern does not occur in url_pattern, url returns url_pattern, for
\* every term.
C7_NoOccurrence ==
    result # None =>
        /\ ~result[1].ok <=> ~RegexNew(engine[1].regex).ok
        /\ (result[1].ok /\ ~Occurs(engine[1].url_pattern, engine[1].pattern)) =>
                result[1].val = engine[1].url_pattern

\* url has returned url_pattern for the empty term, the pattern `.` not
\* occurring in a url_pattern that the regular expression `.` would match
C7_Witness ==
    /\ result # None /\ result[1].ok
    /\ term = << >>
    /\ engine[1].pattern = << "." >> /\ engine[1].url_pattern = << "a", "a" >>
    /\ result[1].val = engine[1].url_pattern

(***************************************************************************)
(* main.  SpecMain: one invocation after the other of the program on the   *)
(* one configuration file.  SpecConc: two invocations at once.  An         *)
(* invocation is at (pc)                                                   *)
(*   start              before Configuration::from                         *)
(*   absent / present   in from, after file_path.exists() said so          *)
(*   loaded             from has returned Ok(config)                       *)
(*   ran                the command has run, config.save() is next         *)
(*   created            in save, after File::create                        *)
(*   done               main returned                                      *)
(*   failed             from returned an error, main returned              *)
(*   panicked / exited  an unwrap or expect panicked / process::exit(1)    *)
(* config keeps its value after it is moved into save.                     *)
(***************************************************************************)
Bools == { FALSE, TRUE }
Ended == { "done", "failed", "panicked", "exited" }
InFileCall == { "absent", "present", "created" }

\* Commands::Add.  name: the name argument or, with --interactive, the answer
\* to the name prompt; complete: the other four arguments, or answers, are there.
AddCommands ==
    { [kind |-> "add", name |-> n, force |-> f, interactive |-> i, complete |-> c] :
        n \in OptNames, f \in Bools, i \in Bools, c \in Bools }
RemoveCommands ==
    { [kind |-> "remove", value |-> v, uuid |-> u] :
        v \in Names \cup { UuidText(x) : x \in Uuids }, u \in Bools }
DefaultCommands == { [kind |-> "default", name |-> n] : n \in OptNames }
ShowCommands == { [kind |-> "show", name |-> n, all |-> (n = None)] : n \in OptNames }
OpenCommands == { [kind |-> "open", terminal |-> t] : t \in Bools }
\* no subcommand: the search
SearchCommands == { [kind |-> "search", engine |-> n] : n \in OptNames }
Commands ==
    AddCommands \cup RemoveCommands \cup { [kind |-> "list"] } \cup DefaultCommands
    \cup ShowCommands \cup OpenCommands \cup SearchCommands

\* the command lines of the two invocations of SpecConc
ConcCommands ==
    { k \in AddCommands : k.name \in { None, Some(<< "g" >>) } /\ ~k.interactive /\ ~k.force }
    \cup { k \in RemoveCommands : k.value = << "g" >> /\ ~k.uuid }
    \cup { [kind |-> "list"], [kind |-> "default", name |-> Some(<< "g" >>)],
           [kind |-> "show", name |-> None, all |-> TRUE],
           [kind |-> "open", terminal |-> TRUE],
           [kind |-> "search", engine |-> None] }

\* a file that is no YAML mapping
Garbage == << Line("", "plain", << "a" >>) >>

\* what the editor of the open command can leave in the file of catalog c:
\* the file as it was, nothing, no YAML, or the catalog with another default
EditorLeaves(f, c) ==
    { f, FileOf(<< >>), FileOf(Garbage) }
    \cup { FileOf(Serialize([c EXCEPT !.default_engine = Some(n)])) : n \in Names }

\* some other invocation is inside a from or a save
Inside(p) == \E q \in Procs \ { p } : pc[q] \in InFileCall
\* p touches the file
Touch(p) == overlap' = (overlap \/ Inside(p))

Goto(p, where) == pc' = [pc EXCEPT ![p] = where]
Ran(p, c) == Goto(p, "ran") /\ config' = [config EXCEPT ![p] = Some(c)]
Panic(p) == Goto(p, "panicked") /\ UNCHANGED config

\* Cli::parse, and file_path.exists() in Configuration::from
LoadExists(p, K) ==
    /\ pc[p] = "start"
    /\ \E k \in K : cmd' = [cmd EXCEPT ![p] = Some(k)]
    /\ Goto(p, IF fs.exists THEN "present" ELSE "absent")
    /\ Touch(p)
    /\ UNCHANGED <<fs, cfg, ret, config, saved, seen, urlVars>>

Loaded(p, r) ==
    /\ fs' = r.fs
    /\ Goto(p, IF r.res.ok THEN "loaded" ELSE "failed")
    /\ config' = [config EXCEPT ![p] = IF r.res.ok THEN Some(r.res.val) ELSE None]
    /\ seen' = [seen EXCEPT ![p] =
                  [writes |-> Len(saved), config |-> IF r.res.ok THEN Some(r.res.val) ELSE None,
                   file |-> fs]]
    /\ Touch(p)
    /\ UNCHANGED <<cfg, ret, cmd, saved, urlVars>>

\* Configuration::from, the branch that creates the file
LoadCreate(p) == pc[p] = "absent" /\ Loaded(p, FromAbsent(Path))

\* Configuration::from, the branches that read the file
LoadRead(p) == pc[p] = "present" /\ Loaded(p, FromPresent(fs, Path))

Local == <<fs, cfg, ret, cmd, saved, seen, overlap, urlVars>>

\* Commands::Add
RunAdd(p) ==
    /\ pc[p] = "loaded" /\ cmd[p][1].kind = "add"
    /\ LET k == cmd[p][1]
           c == config[p][1]
           pushed == /\ Len(names(c)) < MaxStored
                     /\ \E u \in Uuids : Ran(p, push(c, OneRule(u, k.name[1])))
       IN  IF k.interactive
           THEN IF k.name = None \/ ~k.complete THEN Panic(p) ELSE pushed
           ELSE IF k.name = None THEN Panic(p)
           ELSE IF k.force \/ ~Contains(names(c), k.name[1])
           THEN IF ~k.complete THEN Panic(p) ELSE pushed
           ELSE Ran(p, c)
    /\ UNCHANGED Local

\* Commands::Remove
RunRemove(p) ==
    /\ pc[p] = "loaded" /\ cmd[p][1].kind = "remove"
    /\ LET k == cmd[p][1]
           c == config[p][1]
       IN  IF k.uuid
           THEN IF IsUuidText(k.value)
                THEN Ran(p, remove_where_uuid(c, CHOOSE u \in Uuids : UuidText(u) = k.value).cfg)
                ELSE Ran(p, c)
           ELSE Ran(p, remove_where_name(c, k.value).cfg)
    /\ UNCHANGED Local

\* Commands::List
RunList(p) ==
    /\ pc[p] = "loaded" /\ cmd[p][1].kind = "list"
    /\ Ran(p, config[p][1])
    /\ UNCHANGED Local

\* Commands::Default
RunDefault(p) ==
    /\ pc[p] = "loaded" /\ cmd[p][1].kind = "default"
    /\ LET k == cmd[p][1]
           c == config[p][1]
       IN  IF k.name # None THEN Ran(p, set_default(c, k.name[1]).cfg) ELSE Ran(p, c)
    /\ UNCHANGED Local

\* Commands::Show
RunShow(p) ==
    /\ pc[p] = "loaded" /\ cmd[p][1].kind = "show"
    /\ Ran(p, config[p][1])
    /\ UNCHANGED Local

\* Commands::Open: edit_file returns when the editor has been closed;
\* open::that starts the desktop's program for the file and returns
RunOpen(p) ==
    /\ pc[p] = "loaded" /\ cmd[p][1].kind = "open"
    /\ IF cmd[p][1].terminal
       THEN fs' \in EditorLeaves(fs, config[p][1])
       ELSE fs' = fs
    /\ seen' = [seen EXCEPT ![p].file = fs']
    /\ Ran(p, config[p][1])
    /\ Touch(p)
    /\ UNCHANGED <<cfg, ret, cmd, saved, urlVars>>

\* no subcommand: the engine is looked up and the browser opened; nothing is saved
RunSearch(p) ==
    /\ pc[p] = "loaded" /\ cmd[p][1].kind = "search"
    /\ LET k == cmd[p][1]
           c == config[p][1]
       IN  IF k.engine # None
           THEN IF where_name(c, k.engine[1]).ok \/ default(c) # None
                THEN Goto(p, "done") ELSE Goto(p, "exited")
           ELSE IF default(c) # None THEN Goto(p, "done") ELSE Goto(p, "panicked")
    /\ UNCHANGED <<config, Local>>

\* Configuration::save: File::create
SaveCreate(p) ==
    /\ pc[p] = "ran"
    /\ fs' = Create(fs)
    /\ Goto(p, "created")
    /\ Touch(p)
    /\ UNCHANGED <<cfg, ret, config, cmd, saved, seen, urlVars>>

SaveWriteUnlessChanged(p) ==
    /\ pc[p] = "created"
    /\ IF Len(saved) > seen[p].writes
       THEN fs' = fs /\ saved' = saved /\ Goto(p, "failed")
       ELSE /\ fs' = WriteAll(fs, Serialize(config[p][1]))
            /\ saved' = Append(saved, p)
            /\ Goto(p, "done")
    /\ Touch(p)
    /\ UNCHANGED <<cfg, ret, config, cmd, seen, urlVars>>

\* Configuration::save: to_writer and flush
SaveWrite(p) ==
    /\ pc[p] = "created"
    /\ fs' = WriteAll(fs, Serialize(config[p][1]))
    /\ saved' = Append(saved, p)
    /\ Goto(p, "done")
    /\ Touch(p)
    /\ UNCHANGED <<cfg, ret, config, cmd, seen, urlVars>>

\* the next invocation
Again(p) ==
    /\ pc[p] \in Ended
    /\ Goto(p, "start")
    /\ saved' = << >>
    /\ UNCHANGED <<fs, cfg, ret, config, cmd, seen, overlap, urlVars>>

InitMain ==
    /\ fs = NoFile /\ cfg = None /\ ret = Call("new", None, None, None)
    /\ IdleMain /\ IdleUrl

NextMain ==
    \/ LoadExists(1, Commands)
    \/ LoadCreate(1)
    \/ LoadRead(1)
    \/ RunAdd(1)
    \/ RunRemove(1)
    \/ RunList(1)
    \/ RunDefault(1)
    \/ RunShow(1)
    \/ RunOpen(1)
    \/ RunSearch(1)
    \/ SaveCreate(1)
    \/ SaveWrite(1)
    \/ Again(1)

SpecMain == InitMain /\ [][NextMain]_vars

\* the files the two invocations can find: none, an empty one, one engine
\* named g that is the default
ConcFiles ==
    { NoFile, FileOf(<< >>),
      FileOf(Serialize(new(Path, Some(<< "g" >>), Some(<< OneRule(1, << "g" >>) >>)))) }

InitConc ==
    /\ fs \in ConcFiles /\ cfg = None /\ ret = Call("new", None, None, None)
    /\ IdleMain /\ IdleUrl

NextConc ==
    \E p \in Procs :
        \/ LoadExists(p, ConcCommands)
        \/ LoadCreate(p)
        \/ LoadRead(p)
        \/ RunAdd(p)
        \/ RunRemove(p)
        \/ RunList(p)
        \/ RunDefault(p)
        \/ RunShow(p)
        \/ RunOpen(p)
        \/ RunSearch(p)
        \/ SaveCreate(p)
        \/ SaveWrite(p)

SpecConc == InitConc /\ [][NextConc]_vars

(***************************************************************************)
(* Claims about main.                                                      *)
(***************************************************************************)
Mutating(k) == k.kind \in { "add", "remove" } \/ (k.kind = "default" /\ k.name # None)

\* what command k makes of the catalog `was`, seen in the catalog `now`
Effect(k, was, now) ==
    CASE k.kind = "add" ->
           IF k.interactive \/ k.force \/ ~Contains(names(was), k.name[1])
           THEN /\ now.default_engine = was.default_engine
                /\ Len(EnginesOf(now)) = Len(EnginesOf(was)) + 1
                /\ SubSeq(EnginesOf(now), 1, Len(EnginesOf(was))) = EnginesOf(was)
                /\ EnginesOf(now)[Len(EnginesOf(now))].name = k.name[1]
           ELSE now = was
      [] k.kind = "remove" /\ ~k.uuid ->
           \A i \in 1..Len(EnginesOf(now)) : EnginesOf(now)[i].name # k.value
      [] k.kind = "remove" /\ k.uuid ->
           \A i \in 1..Len(EnginesOf(now)) : UuidText(EnginesOf(now)[i].uuid) # k.value
      [] k.kind = "default" ->
           IF Contains(names(was), k.name[1])
           THEN now = [was EXCEPT !.default_engine = k.name]
           ELSE now = was

\* C8: an invocation that performs a mutating command (add, remove, default
\* with a name) writes the file once, after the command has run, and when it
\* is done the file is the serialization of its catalog, which shows the
\* command's effect on the catalog it loaded and which a load of the file gives back.
C8_SavedOnceAfterMutation ==
    \A p \in Procs :
        (cmd[p] # None /\ Mutating(cmd[p][1])) =>
            /\ pc[p] \in { "absent", "present", "loaded", "ran", "created" } => saved = << >>
            /\ pc[p] = "done" =>
                  /\ saved = << p >>
                  /\ fs = FileOf(Serialize(config[p][1]))
                  /\ from(fs, Path).res = Ok(config[p][1])
                  /\ Effect(cmd[p][1], seen[p].config[1], config[p][1])

\* a remove that emptied a catalog of one engine has been saved
C8_Witness ==
    /\ pc[1] = "done" /\ cmd[1][1].kind = "remove"
    /\ Len(EnginesOf(seen[1].config[1])) = 1
    /\ config[1][1].engines = Some(<< >>)
    /\ fs = FileOf(Serialize(config[1][1]))

AllEnded == \A p \in Procs : pc[p] \in Ended
\* the file is the catalog of the invocation that wrote last
LastWriterWins == fs = FileOf(Serialize(config[saved[Len(saved)]][1]))
\* both invocations wrote and had both loaded before either wrote
BothLoadedFirst ==
    Len(saved) = 2 /\ \A p \in Procs : seen[p].config # None /\ seen[p].writes = 0
\* nothing is merged: every engine of the file is one the last writer loaded
\* or the one its own add pushed
NothingMerged ==
    LET l == saved[2]
        final == Deserialize(fs.data)
        had == EnginesOf(seen[l].config[1])
    IN  /\ final.ok
        /\ \A i \in 1..Len(EnginesOf(final.val)) :
              \/ \E j \in 1..Len(had) : had[j] = EnginesOf(final.val)[i]
              \/ /\ cmd[l][1].kind = "add" /\ i = Len(had) + 1
                 /\ EnginesOf(final.val)[i].name = cmd[l][1].name[1]

\* C9, as claimed: when two invocations have run at once, the file is the
\* catalog of the one that saved last; if both loaded before either saved,
\* nothing of the earlier saver's catalog is merged into it.
C9_LastWriteWins ==
    (AllEnded /\ saved # << >>) =>
        /\ LastWriterWins
        /\ BothLoadedFirst => NothingMerged

\* C9, amended: when two invocations have run at once and no file operation
\* of one fell inside a from or a save of the other, the file is the catalog
\* of the one that saved last; if both loaded before either saved, nothing of
\* the earlier saver's catalog is merged into it.
C9_LastWriteWinsUnlessOverlap ==
    (AllEnded /\ saved # << >> /\ ~overlap) =>
        /\ LastWriterWins
        /\ BothLoadedFirst => NothingMerged

\* the lost update: both loaded, the first saved a catalog with an engine
\* more, the second saved the catalog it had loaded
C9_Witness ==
    /\ AllEnded /\ ~overlap /\ saved = << 1, 2 >> /\ BothLoadedFirst
    /\ cmd[1][1].kind = "add" /\ cmd[2][1].kind = "list"
    /\ Len(EnginesOf(config[1][1])) = Len(EnginesOf(config[2][1])) + 1
    /\ fs = FileOf(Serialize(config[2][1]))

\* the commands that change nothing of the catalog
ReadOnly(k) ==
    k.kind \in { "list", "show", "open" } \/ (k.kind = "default" /\ k.name = None)

\* C13, as claimed: when an invocation of list, show, default without a name
\* or open is done, the file is as the invocation found it or, for open, as
\* the editor left it.
C13_ReadOnlyKeepsFile ==
    (pc[1] = "done" /\ ReadOnly(cmd[1][1])) => fs = seen[1].file

Distinct(v) == \A i, j \in 1..Len(v) : v[i] = v[j] => i = j

\* C14, as claimed: an add without force on a catalog whose names are
\* pairwise distinct leaves the names pairwise distinct, with --interactive
\* as well as with the name given as argument; when the name is already
\* there nothing is pushed.
C14_AddKeepsNamesDistinct ==
    (/\ pc[1] \in { "ran", "created", "done" }
     /\ cmd[1][1].kind = "add" /\ ~cmd[1][1].force
     /\ Distinct(names(seen[1].config[1]))) =>
        /\ Distinct(names(config[1][1]))
        /\ Contains(names(seen[1].config[1]), cmd[1][1].name[1]) =>
                config[1][1] = seen[1].config[1]

=============================================================================
